---- MODULE Spec2Model ----
(***************************************************************************)
(* Model of server.js: the in-memory TF vector store and /api/index, the   *)
(* retriever, the provider rotation with failover, the emergency gate, the *)
(* /api/chat handler and the /api/book handler.                            *)
(*                                                                         *)
(* Node runs every handler on one thread; a handler runs without           *)
(* interruption up to its next `await`.  /api/index has no await (it uses  *)
(* the *Sync file calls), so it is one atomic action, and so is /api/book. *)
(* /api/chat suspends only inside a provider call, so one action runs it   *)
(* from the request to the first provider call, and one action runs it     *)
(* from the return of a provider call to the next provider call or to the  *)
(* response.                                                               *)
(*                                                                         *)
(* Texts, file names and messages are strings; characters are strings of   *)
(* length one, taken with SubSeq.                                          *)
(***************************************************************************)
EXTENDS Integers, Sequences, FiniteSets, TLC

VARIABLES
    providers,      \* server.js:20-23  configured providers, declaration order
    providerIndex,  \* server.js:24     rotation cursor
    vectorStore,    \* server.js:28     [docs, vocab]
    fs,             \* files on disk: [knowledge: names in ./knowledge, root: names in __dirname]
    indexRes,       \* response of the latest POST /api/index
    req,            \* per chat request: position in the handler, locals, response
    calls,          \* per chat request: the provider calls issued for it, in order
    lastSel,        \* the request whose invocation made the latest cursor selection (0: none)
    probe,          \* latest direct call of retrieveTopK: [query, k, result]
    selLog,         \* every call of getNextProvider so far: [cursor read, provider returned]
    clock,          \* server.js:161  the reading Date.now() gives, in ms
    bookings,       \* server.js:159  the file bookings.json: [exists, all]
    bookRes         \* response of the latest POST /api/book

vars == <<providers, providerIndex, vectorStore, fs, indexRes, req, calls, lastSel, probe,
          selLog, clock, bookings, bookRes>>

----------------------------------------------------------------------------
(* Bounds *)

NumReq == 2
MaxTicks == 3
MaxBookings == 2          \* chat requests in flight or finished
MaxK == 2            \* retrieveTopK is called directly with k in -MaxK..MaxK

Reqs == 1..NumReq

----------------------------------------------------------------------------
(* Strings *)

Min(a, b) == IF a <= b THEN a ELSE b

Char(s, i) == SubSeq(s, i, i)

UpperChars == "ABCDEFGHIJKLMNOPQRSTUVWXYZ"
LowerChars == "abcdefghijklmnopqrstuvwxyz"
DigitChars == "0123456789"

CharsOf(s) == { Char(s, i) : i \in 1..Len(s) }

UpperSet == CharsOf(UpperChars)
DigitSet == CharsOf(DigitChars)
WordSet == CharsOf(UpperChars) \cup CharsOf(LowerChars) \cup CharsOf(DigitChars) \cup {"_"}

\* String.prototype.toLowerCase on one ASCII character
LowerChar(c) ==
    IF c \in UpperSet
    THEN Char(LowerChars, CHOOSE i \in 1..Len(UpperChars) : Char(UpperChars, i) = c)
    ELSE c

RECURSIVE toLowerCase(_)
toLowerCase(s) ==
    IF Len(s) = 0 THEN "" ELSE LowerChar(Char(s, 1)) \o toLowerCase(Tail(s))

\* the regular expression class \w
IsWordChar(c) == c \in WordSet

\* String.prototype.includes
includes(t, w) ==
    \E i \in 0..(Len(t) - Len(w)) : SubSeq(t, i + 1, i + Len(w)) = w

\* String.prototype.endsWith
endsWith(t, w) ==
    Len(t) >= Len(w) /\ SubSeq(t, Len(t) - Len(w) + 1, Len(t)) = w

WhiteChars == {" ", "\n", "\t"}

\* String.prototype.trim
RECURSIVE trimStart(_)
trimStart(s) ==
    IF Len(s) > 0 /\ Char(s, 1) \in WhiteChars THEN trimStart(Tail(s)) ELSE s

RECURSIVE trimEnd(_)
trimEnd(s) ==
    IF Len(s) > 0 /\ Char(s, Len(s)) \in WhiteChars
    THEN trimEnd(SubSeq(s, 1, Len(s) - 1)) ELSE s

trim(s) == trimEnd(trimStart(s))

\* Array.prototype.join
RECURSIVE join(_, _)
join(seq, sep) ==
    IF Len(seq) = 0 THEN ""
    ELSE IF Len(seq) = 1 THEN seq[1]
    ELSE seq[1] \o sep \o join(Tail(seq), sep)

\* Array.prototype.slice(0, k): a negative k counts from the end
slice0(seq, k) ==
    LET end == IF k < 0 THEN (IF Len(seq) + k < 0 THEN 0 ELSE Len(seq) + k)
               ELSE Min(k, Len(seq))
    IN SubSeq(seq, 1, end)

\* Array.prototype.sort with a consistent comparator is a stable sort
\* (ECMAScript 2019): element i goes after every element that must precede
\* it and after the earlier elements that compare equal to it.
\* before[i][j] is "comparator(seq[i], seq[j]) < 0".
SortStable(seq, before) ==
    LET n == Len(seq)
        Rank(i) == Cardinality({ j \in 1..n :
                       \/ before[j][i]
                       \/ (~before[i][j] /\ j < i) }) + 1
    IN [ p \in 1..n |-> seq[CHOOSE i \in 1..n : Rank(i) = p] ]

----------------------------------------------------------------------------
(* Tokenizer and TF vectors, server.js:29-34 *)

\* s.toLowerCase().split(/\W+/).filter(Boolean): the maximal runs of word
\* characters, in order
RECURSIVE splitWords(_, _)
splitWords(s, cur) ==
    IF Len(s) = 0 THEN (IF cur = "" THEN <<>> ELSE <<cur>>)
    ELSE IF IsWordChar(Char(s, 1)) THEN splitWords(Tail(s), cur \o Char(s, 1))
    ELSE (IF cur = "" THEN <<>> ELSE <<cur>>) \o splitWords(Tail(s), "")

toks(s) == splitWords(toLowerCase(s), "")

\* value of a string of digits
RECURSIVE NumVal(_)
NumVal(t) ==
    IF Len(t) = 0 THEN 0
    ELSE 10 * NumVal(SubSeq(t, 1, Len(t) - 1))
         + ((CHOOSE i \in 1..10 : Char(DigitChars, i) = Char(t, Len(t))) - 1)

\* an object key that is a canonical array index: Object.keys lists these
\* first, in ascending numeric order, before the other keys
IsIndexKey(t) ==
    /\ Len(t) >= 1 /\ Len(t) <= 9
    /\ \A i \in 1..Len(t) : Char(t, i) \in DigitSet
    /\ (Len(t) = 1 \/ Char(t, 1) # "0")

\* docs.forEach(d => toks(d.text).forEach(t => ...)): all tokens in order
RECURSIVE allTokens(_)
allTokens(docs) ==
    IF Len(docs) = 0 THEN <<>> ELSE toks(docs[1].text) \o allTokens(Tail(docs))

\* the keys of f in the order of their first insertion
RECURSIVE firstSeen(_, _)
firstSeen(ts, acc) ==
    IF Len(ts) = 0 THEN acc
    ELSE firstSeen(Tail(ts),
                   IF \E i \in 1..Len(acc) : acc[i] = ts[1] THEN acc
                   ELSE Append(acc, ts[1]))

\* Object.keys(f)
objectKeys(ts) ==
    LET ins == firstSeen(ts, <<>>)
        IsIdx(t) == IsIndexKey(t)
        NotIdx(t) == ~IsIndexKey(t)
        idx == SelectSeq(ins, IsIdx)
        numBefore == [ i \in 1..Len(idx) |-> [ j \in 1..Len(idx) |->
                         NumVal(idx[i]) < NumVal(idx[j]) ] ]
    IN SortStable(idx, numBefore) \o SelectSeq(ins, NotIdx)

count(ts, w) == Cardinality({ i \in 1..Len(ts) : ts[i] = w })

MaxVocab == 400

buildVocab(docs, maxV) ==
    LET ts == allTokens(docs)
        keys == objectKeys(ts)
        before == [ i \in 1..Len(keys) |-> [ j \in 1..Len(keys) |->
                      count(ts, keys[j]) - count(ts, keys[i]) < 0 ] ]
    IN slice0(SortStable(keys, before), maxV)

tfvec(text, vocab) ==
    LET t == toks(text) IN [ i \in 1..Len(vocab) |-> count(t, vocab[i]) ]

RECURSIVE dotFrom(_, _, _)
dotFrom(a, b, i) ==
    IF i > Len(a) THEN 0 ELSE a[i] * b[i] + dotFrom(a, b, i + 1)

dot(a, b) == dotFrom(a, b, 1)

\* cosine(a, b) = dot(a,b) / (sqrt(dot(a,a)) * sqrt(dot(b,b)) + 1e-12) is not
\* an integer.  The model keeps the score as the pair of integers that
\* determines it for a fixed query vector a: d = dot(a,b) and bb = dot(b,b)
\* (aa = dot(a,a) is the same for all documents of one query).
cosine(a, b) == [ d |-> dot(a, b), aa |-> dot(a, a), bb |-> dot(b, b) ]

\* x.score > y.score for two scores of the same query.  With N = sqrt(aa*bb):
\* d1/(N1+e) > d2/(N2+e).  When d1*N2 # d2*N1 the sign is that of
\* d1*N2 - d2*N1, i.e. of d1^2*bb2 - d2^2*bb1 (all counts are >= 0 and the
\* difference is far above e = 1e-12 for the small counts of the model);
\* when they are equal the e term decides: the larger d has the larger score.
ScoreGreater(x, y) ==
    \/ x.d * x.d * y.bb > y.d * y.d * x.bb
    \/ (x.d * x.d * y.bb = y.d * y.d * x.bb /\ x.d > y.d)

----------------------------------------------------------------------------
(* Retriever, server.js:57-62 *)

\* retrieveTopK with the comparator a.score - b.score
retrieveTopKAscending(query, k) ==
    IF Len(vectorStore.docs) = 0 THEN <<>>
    ELSE LET qv == tfvec(query, vectorStore.vocab)
             scored == [ i \in 1..Len(vectorStore.docs) |->
                           [ doc |-> vectorStore.docs[i],
                             score |-> cosine(qv, vectorStore.docs[i].embedding) ] ]
             before == [ i \in 1..Len(scored) |-> [ j \in 1..Len(scored) |->
                           ScoreGreater(scored[j].score, scored[i].score) ] ]
             top == slice0(SortStable(scored, before), k)
         IN [ i \in 1..Len(top) |-> top[i].doc ]

retrieveTopK(query, k) ==
    IF Len(vectorStore.docs) = 0 THEN <<>>
    ELSE LET qv == tfvec(query, vectorStore.vocab)
             scored == [ i \in 1..Len(vectorStore.docs) |->
                           [ doc |-> vectorStore.docs[i],
                             score |-> cosine(qv, vectorStore.docs[i].embedding) ] ]
             before == [ i \in 1..Len(scored) |-> [ j \in 1..Len(scored) |->
                           ScoreGreater(scored[i].score, scored[j].score) ] ]
             top == slice0(SortStable(scored, before), k)
         IN [ i \in 1..Len(top) |-> top[i].doc ]

----------------------------------------------------------------------------
(* Files on disk.  A name has one content per directory; the file under    *)
(* ./knowledge and the file of the same name under __dirname differ.       *)

KnowledgeNames == {"a.txt", "b.md", "c.js"}
RootNames == {"a.txt", "b.md", "my_data.txt"}

KnowledgeText(fn) ==
    CASE fn = "a.txt" -> "Breathe slowly"
      [] fn = "b.md"  -> "Talk to a friend"
      [] OTHER        -> "module.exports = 1"

RootText(fn) ==
    CASE fn = "a.txt" -> "Sleep sleep"
      [] fn = "b.md"  -> "Sleep. Walk"
      [] OTHER        -> "Call 10 or 2, walk"

\* the sequences that list the set S once each: fs.readdirSync returns the
\* entries in the order of the directory, which the code does not fix
RECURSIVE Listings(_)
Listings(S) ==
    IF S = {} THEN { <<>> }
    ELSE UNION { { <<x>> \o l : l \in Listings(S \ {x}) } : x \in S }

\* server.js:40  the .txt/.md entries of ./knowledge (none when the folder is absent)
knowledgeFiles == { f \in fs.knowledge : endsWith(f, ".txt") \/ endsWith(f, ".md") }

\* server.js:46  path.join(__dirname, fn): every file is read from __dirname
readFileSync(fn) == RootText(fn)
canRead(fn) == fn \in fs.root

\* server.js:46
loadDocs(files) == [ i \in 1..Len(files) |-> [ id |-> files[i], text |-> readFileSync(files[i]) ] ]

\* the store whose embeddings are computed over the vocabulary in place
\* before the request
builtStoreStaleVocab(docs) ==
    LET vocab == buildVocab(docs, MaxVocab)
    IN [ vocab |-> vocab,
         docs  |-> [ i \in 1..Len(docs) |->
                      [ id |-> docs[i].id, text |-> docs[i].text,
                        embedding |-> tfvec(docs[i].text, vectorStore.vocab) ] ] ]

\* server.js:47-49
builtStore(docs) ==
    LET vocab == buildVocab(docs, MaxVocab)
    IN [ vocab |-> vocab,
         docs  |-> [ i \in 1..Len(docs) |->
                      [ id |-> docs[i].id, text |-> docs[i].text,
                        embedding |-> tfvec(docs[i].text, vocab) ] ] ]

\* server.js:40-43  the lists of files an index request can come to read
FileLists ==
    UNION { Listings(S) : S \in SUBSET { f \in KnowledgeNames : endsWith(f, ".txt") \/ endsWith(f, ".md") } }
    \cup { << "my_data.txt" >> }

\* server.js:46-49  the store built from each list of files, computed once
IndexedStores == [ files \in FileLists |-> builtStore(loadDocs(files)) ]

NoIndexRes == [ status |-> 0 ]
NoFilesError == "No knowledge files found. Add .txt/.md to ./knowledge or place my_data.txt"

\* the handler with the store reset before the documents are discovered
indexOutcomeClearing(listed) ==
    LET files == IF Len(listed) = 0 /\ "my_data.txt" \in fs.root
                 THEN << "my_data.txt" >> ELSE listed
        empty == [ docs |-> <<>>, vocab |-> <<>> ]
    IN  IF Len(files) = 0
        THEN [ res |-> [ status |-> 400, error |-> NoFilesError ], store |-> empty ]
        ELSE IF \E i \in 1..Len(files) : ~canRead(files[i])
        THEN [ res |-> [ status |-> 500, error |-> "index failed" ], store |-> empty ]
        ELSE LET store == IndexedStores[files]
             IN [ res |-> [ status |-> 200, ok |-> TRUE, indexed |-> Len(store.docs) ],
                  store |-> store ]

\* the first unreadable file of the list (0: none)
firstUnreadable(files) ==
    IF \A i \in 1..Len(files) : canRead(files[i]) THEN 0
    ELSE CHOOSE i \in 1..Len(files) : ~canRead(files[i]) /\ \A j \in 1..(i - 1) : canRead(files[j])

\* the handler storing each document as soon as it is read: a failed read
\* leaves the documents read before it in the store
indexOutcomeEarlyWrite(listed) ==
    LET files == IF Len(listed) = 0 /\ "my_data.txt" \in fs.root
                 THEN << "my_data.txt" >> ELSE listed
    IN  IF Len(files) = 0
        THEN [ res |-> [ status |-> 400, error |-> NoFilesError ], store |-> vectorStore ]
        ELSE IF firstUnreadable(files) # 0
        THEN [ res |-> [ status |-> 500, error |-> "index failed" ],
               store |-> IndexedStores[SubSeq(files, 1, firstUnreadable(files) - 1)] ]
        ELSE LET store == IndexedStores[files]
             IN [ res |-> [ status |-> 200, ok |-> TRUE, indexed |-> Len(store.docs) ],
                  store |-> store ]

\* the handler appending the new documents to those of the store
indexOutcomeMerging(listed) ==
    LET files == IF Len(listed) = 0 /\ "my_data.txt" \in fs.root
                 THEN << "my_data.txt" >> ELSE listed
    IN  IF Len(files) = 0
        THEN [ res |-> [ status |-> 400, error |-> NoFilesError ], store |-> vectorStore ]
        ELSE IF \E i \in 1..Len(files) : ~canRead(files[i])
        THEN [ res |-> [ status |-> 500, error |-> "index failed" ], store |-> vectorStore ]
        ELSE LET store == IndexedStores[files]
                 merged == [ store EXCEPT !.docs = vectorStore.docs \o @ ]
             IN [ res |-> [ status |-> 200, ok |-> TRUE, indexed |-> Len(merged.docs) ],
                  store |-> merged ]

\* server.js:36-55 with the listing `listed` of ./knowledge
indexOutcome(listed) ==
    LET files == IF Len(listed) = 0 /\ "my_data.txt" \in fs.root
                 THEN << "my_data.txt" >> ELSE listed
    IN  IF Len(files) = 0
        THEN [ res |-> [ status |-> 400, error |-> NoFilesError ], store |-> vectorStore ]
        ELSE IF \E i \in 1..Len(files) : ~canRead(files[i])
        THEN [ res |-> [ status |-> 500, error |-> "index failed" ], store |-> vectorStore ]
        ELSE LET store == IndexedStores[files]
             IN [ res |-> [ status |-> 200, ok |-> TRUE, indexed |-> Len(store.docs) ],
                  store |-> store ]

----------------------------------------------------------------------------
(* Provider rotation, server.js:20-25 and 95-113 *)

Null == "null"
ChatMaxTries == 3

\* getNextProvider without `providerIndex++`
getNextProviderNoAdvance(idx) ==
    IF Len(providers) = 0 THEN [ provider |-> Null, index |-> idx ]
    ELSE [ provider |-> providers[(idx % Len(providers)) + 1], index |-> idx ]

\* getNextProvider with a cursor kept below the number of providers
getNextProviderWrapping(idx) ==
    IF Len(providers) = 0 THEN [ provider |-> Null, index |-> idx ]
    ELSE [ provider |-> providers[(idx % Len(providers)) + 1],
           index |-> (idx + 1) % Len(providers) ]

\* server.js:25  with the cursor value idx: the provider and the new cursor
getNextProvider(idx) ==
    IF Len(providers) = 0 THEN [ provider |-> Null, index |-> idx ]
    ELSE [ provider |-> providers[(idx % Len(providers)) + 1], index |-> idx + 1 ]

\* the skip test without `tried.has(provider)`
skipProviderNullOnly(provider, tried) == provider = Null

\* server.js:100
skipProvider(provider, tried) == provider = Null \/ provider \in tried

\* the loop bound without the number of providers
attemptLimitMaxTriesOnly(maxTries) == maxTries

\* server.js:98  Math.min(maxTries, providers.length)
attemptLimit(maxTries) == Min(maxTries, Len(providers))

\* server.js:98-101  the loop from its condition to the next provider call
\* or to its end; attempt is the loop counter, idx the cursor, selections
\* the number of calls of getNextProvider made on the way, and reads what
\* each of them read and returned
RECURSIVE rotate(_, _, _, _)
rotate(attempt, tried, idx, maxTries) ==
    IF ~(attempt < attemptLimit(maxTries))
    THEN [ kind |-> "exhausted", attempt |-> attempt, tried |-> tried, index |-> idx,
           provider |-> Null, selections |-> 0, reads |-> <<>> ]
    ELSE LET g == getNextProvider(idx)
             read == [ cursor |-> idx, provider |-> g.provider ]
         IN IF skipProvider(g.provider, tried)
            THEN LET rest == rotate(attempt + 1, tried, g.index, maxTries)
                 IN [ rest EXCEPT !.selections = @ + 1, !.reads = << read >> \o @ ]
            ELSE [ kind |-> "call", attempt |-> attempt, tried |-> tried \cup {g.provider},
                   index |-> g.index, provider |-> g.provider, selections |-> 1,
                   reads |-> << read >> ]

\* the throw that forgets the recorded error
thrownErrorGeneric(lastErr) == "All providers failed"

\* server.js:112  lastErr || new Error('All providers failed')
thrownError(lastErr) == IF lastErr # Null THEN lastErr ELSE "All providers failed"

\* server.js:96
NoProvidersError == "No providers configured"

\* server.js:69, 79, 87  the error a failed call throws
providerError(p) ==
    CASE p = "google" -> "Google error"
      [] p = "openai" -> "OpenAI error"
      [] OTHER        -> "HF error"

\* the text a successful call returns
providerText(p) ==
    CASE p = "google" -> "Namaste. Tell me more.\n"
      [] p = "openai" -> " I hear you."
      [] OTHER        -> "ok"

----------------------------------------------------------------------------
(* Emergency gate and chat handler, server.js:116-152 *)

EMER_WORDS == << "suicide", "kill myself", "hurt myself", "overdose", "i want to die", "self harm" >>

\* checkEmergency without the toLowerCase
checkEmergencyCaseSensitive(text) ==
    \E i \in 1..Len(EMER_WORDS) : includes(text, EMER_WORDS[i])

\* server.js:117
checkEmergency(text) ==
    LET t == toLowerCase(text) IN \E i \in 1..Len(EMER_WORDS) : includes(t, EMER_WORDS[i])

BookWords == << "book", "appointment", "session", "slot" >>

\* server.js:138  /\b(book|appointment|session|slot)\b/i.test(message)
bookingIntent(message) ==
    \E w \in 1..Len(BookWords) : \E i \in 0..(Len(message) - Len(BookWords[w])) :
        LET e == i + Len(BookWords[w]) IN
        /\ toLowerCase(SubSeq(message, i + 1, e)) = BookWords[w]
        /\ (i = 0 \/ ~IsWordChar(Char(message, i)))
        /\ (e = Len(message) \/ ~IsWordChar(Char(message, e + 1)))

BOOKING_LINK == "https://book.example"

SafetyText == "I care about your safety. I cannot provide emergency services. Please call local emergency services or helplines: Vandrevala 1860-266-2345, iCall 9152987821. Would you like me to request an urgent booking?"

NoRes == [ status |-> 0, reply |-> "", emergency |-> FALSE, booking |-> <<>>, error |-> "" ]

\* server.js:123
badRequest == [ NoRes EXCEPT !.status = 400, !.error = "Provide message" ]

\* server.js:126-127
safetyResponse == [ NoRes EXCEPT !.status = 200, !.reply = SafetyText, !.emergency = TRUE ]

\* server.js:137-139
generatedResponse(reply, message) ==
    [ NoRes EXCEPT !.status = 200, !.reply = trim(reply),
                   !.booking = IF bookingIntent(message) THEN << BOOKING_LINK >> ELSE <<>> ]

\* server.js:146-147
demoResponse(message, top) ==
    LET ids == join([ i \in 1..Len(top) |-> top[i].id ], ", ")
    IN [ NoRes EXCEPT !.status = 200,
           !.reply = "[DEMO] I hear you said: '" \o message \o "'. Retrieved docs: "
                     \o (IF ids = "" THEN "none" ELSE ids) \o "." ]

\* server.js:150
serverError == [ NoRes EXCEPT !.status = 500, !.error = "Server error" ]

\* the handler without the inner try/catch: the outer catch answers 500
onGenerationErrorRethrow == "rethrow"

\* server.js:140-142  where the handler goes when generateWithRotation throws
onGenerationError == "fallback"

\* a request before it arrives.  via: "chat" for POST /api/chat, "direct"
\* for a call of generateWithRotation on its own; maxTries, attempt, tried,
\* provider, lastErr: the arguments and locals of generateWithRotation;
\* text, err: what it returned or threw; selections: the calls of
\* getNextProvider it made
IdleReq == [ pc |-> "idle", message |-> "", retrieved |-> FALSE, top |-> <<>>,
             attempt |-> 0, tried |-> {}, provider |-> Null,
             lastErr |-> Null, res |-> NoRes,
             via |-> "chat", maxTries |-> 0, text |-> Null, err |-> Null,
             selections |-> 0 ]

\* the messages a client sends: the value of req.body.message
Messages == { "", "I WANT TO DIE, book a slot", "Book a slot" }

\* the request bodies: without a message field (<<>>) or with one (<<m>>)
Bodies == { <<>> } \cup { << m >> : m \in Messages }

\* server.js:122  req.body && req.body.message ? String(req.body.message) : ''
messageOf(body) == IF Len(body) > 0 /\ body[1] # "" THEN body[1] ELSE ""

\* the validation without the test: no request is rejected
isMissingNever(message) == FALSE

\* server.js:123  !message
isMissing(message) == message = ""

----------------------------------------------------------------------------
(* Booking records, server.js:155-171 *)

\* Number to decimal string, as `'BK' + Date.now()` converts it
RECURSIVE numberToString(_)
numberToString(n) ==
    IF n < 10 THEN SubSeq(DigitChars, n + 1, n + 1)
    ELSE numberToString(n \div 10) \o SubSeq(DigitChars, (n % 10) + 1, (n % 10) + 1)

\* server.js:161
bookingRef(now) == "BK" \o numberToString(now)

\* server.js:162  the optional fields are absent from the requests sent
\* here, so they are stored as ''; created is the instant of `new Date()`
bookingEntry(name, phone, now, created) ==
    [ ref |-> bookingRef(now), name |-> name, phone |-> phone, preferred |-> "",
      notes |-> "", source |-> "", created |-> created ]

\* server.js:160  the records read from bookings.json, [] without the file
readBookings == IF bookings.exists THEN bookings.all ELSE <<>>

NoBookRes == [ status |-> 0, ok |-> FALSE, ref |-> "", error |-> "" ]

\* server.js:158
bookingRejected == [ status |-> 400, ok |-> FALSE, ref |-> "", error |-> "Provide name and phone" ]

\* server.js:166
bookingAccepted(ref) == [ status |-> 200, ok |-> TRUE, ref |-> ref, error |-> "" ]

\* the reading of the clock when the process starts; readings are small
\* numbers that cross a power of ten
ClockStart == 8

\* the values of req.body.name and req.body.phone; "" stands for an
\* absent or empty field
BookNames == { "", "Asha" }
BookPhones == { "", "9999999999" }

----------------------------------------------------------------------------
(* Initial state: the process after start-up, server.js:13-28 *)

\* server.js:20-23  one provider per API key that is set
ProviderConfigs ==
    { (IF g THEN << "google" >> ELSE <<>>) \o (IF o THEN << "openai" >> ELSE <<>>)
      \o (IF h THEN << "huggingface" >> ELSE <<>>) : g \in BOOLEAN, o \in BOOLEAN, h \in BOOLEAN }

NoProbe == [ called |-> FALSE, query |-> "", k |-> 0, result |-> <<>> ]

InitProcess ==
    /\ providers \in ProviderConfigs
    /\ providerIndex = 0
    /\ vectorStore = [ docs |-> <<>>, vocab |-> <<>> ]
    /\ indexRes = NoIndexRes
    /\ req = [ r \in Reqs |-> IdleReq ]
    /\ calls = [ r \in Reqs |-> <<>> ]
    /\ lastSel = 0
    /\ probe = NoProbe
    /\ selLog = <<>>
    /\ clock = ClockStart
    /\ bookings = [ exists |-> FALSE, all |-> <<>> ]
    /\ bookRes = NoBookRes

\* the deployment the chat specification starts from: no .txt/.md file
\* under ./knowledge, and the fallback file
Init ==
    /\ InitProcess
    /\ fs = [ knowledge |-> {"c.js"}, root |-> {"my_data.txt"} ]

----------------------------------------------------------------------------
(* POST /api/index, server.js:36-55 *)

Index ==
    \E listed \in Listings(knowledgeFiles) :
        LET out == indexOutcome(listed)
        IN /\ indexRes' = out.res
           /\ vectorStore' = out.store
           /\ UNCHANGED << providers, providerIndex, fs, req, calls, lastSel, selLog, probe, clock, bookings, bookRes >>

----------------------------------------------------------------------------
(* POST /api/chat, server.js:120-152 *)

\* the invocation's state after rotate() stopped at `out`: suspended in a
\* provider call, or (loop exhausted) server.js:112 throws; a direct call
\* ends with the error, in the chat handler server.js:140 catches it and
\* the handler goes to the response chosen by onGenerationError
afterRotate(st, out) ==
    LET st1 == [ st EXCEPT !.attempt = out.attempt, !.tried = out.tried,
                           !.selections = @ + out.selections ]
    IN IF out.kind = "call"
       THEN [ st1 EXCEPT !.pc = "await", !.provider = out.provider ]
       ELSE LET st2 == [ st1 EXCEPT !.err = thrownError(st.lastErr) ]
            IN IF st.via = "direct"
               THEN [ st2 EXCEPT !.pc = "threw" ]
               ELSE IF onGenerationError = "fallback"
               THEN [ st2 EXCEPT !.pc = "retDemo", !.res = demoResponse(st.message, st.top) ]
               ELSE [ st2 EXCEPT !.pc = "ret500", !.res = serverError ]

\* server.js:98-105  request r, in state st, runs the loop from the counter
\* value attempt to its next provider call or to its end
runLoop(r, st, attempt) ==
    LET out == rotate(attempt, st.tried, providerIndex, st.maxTries)
    IN /\ req' = [ req EXCEPT ![r] = afterRotate(st, out) ]
       /\ providerIndex' = out.index
       /\ calls' = IF out.kind = "call"
                   THEN [ calls EXCEPT ![r] = Append(@, out.provider) ]
                   ELSE calls
       /\ lastSel' = IF out.selections > 0 THEN r ELSE lastSel
       /\ selLog' = selLog \o out.reads

\* server.js:120-136 and 95-105: from the arrival of the request to its
\* response or to its first provider call.  Requests are numbered in the
\* order of their arrival.
ChatStart(r, body) ==
    /\ req[r].pc = "idle"
    /\ \A q \in Reqs : q < r => req[q].pc # "idle"
    /\ LET message == messageOf(body)
           st0 == [ req[r] EXCEPT !.message = message, !.via = "chat" ]
       IN IF isMissing(message)
          THEN /\ req' = [ req EXCEPT ![r] = [ st0 EXCEPT !.pc = "ret400", !.res = badRequest ] ]
               /\ UNCHANGED << providerIndex, calls, lastSel, selLog >>
          ELSE IF checkEmergency(message)
          THEN /\ req' = [ req EXCEPT ![r] = [ st0 EXCEPT !.pc = "retSafety", !.res = safetyResponse ] ]
               /\ UNCHANGED << providerIndex, calls, lastSel, selLog >>
          ELSE LET top == retrieveTopK(message, 3)
                   st1 == [ st0 EXCEPT !.retrieved = TRUE, !.top = top ]
               IN IF Len(providers) > 0
                  THEN runLoop(r, [ st1 EXCEPT !.maxTries = ChatMaxTries ], 0)
                  ELSE /\ req' = [ req EXCEPT ![r] = [ st1 EXCEPT !.pc = "retDemo",
                                                         !.res = demoResponse(message, top) ] ]
                       /\ UNCHANGED << providerIndex, calls, lastSel, selLog >>
    /\ UNCHANGED << providers, vectorStore, fs, indexRes, probe, clock, bookings, bookRes >>

\* server.js:95-105: generateWithRotation(prompt, maxTries) called on its
\* own, from the call to its first provider call or to its throw
Generate(r, maxTries) ==
    /\ req[r].pc = "idle"
    /\ \A q \in Reqs : q < r => req[q].pc # "idle"
    /\ LET st0 == [ req[r] EXCEPT !.via = "direct", !.maxTries = maxTries ]
       IN IF Len(providers) = 0
          THEN /\ req' = [ req EXCEPT ![r] = [ st0 EXCEPT !.pc = "threw", !.err = NoProvidersError ] ]
               /\ UNCHANGED << providerIndex, calls, lastSel, selLog >>
          ELSE runLoop(r, st0, 0)
    /\ UNCHANGED << providers, vectorStore, fs, indexRes, probe, clock, bookings, bookRes >>

\* server.js:103-105, 137-139: the provider call returns its text
ProviderOk(r) ==
    /\ req[r].pc = "await"
    /\ LET text == providerText(req[r].provider)
       IN req' = [ req EXCEPT ![r] =
                     IF req[r].via = "direct"
                     THEN [ @ EXCEPT !.pc = "returned", !.text = text ]
                     ELSE [ @ EXCEPT !.pc = "retGenerated", !.text = text,
                                     !.res = generatedResponse(text, req[r].message) ] ]
    /\ UNCHANGED << providers, providerIndex, vectorStore, fs, indexRes, calls, lastSel, selLog, probe, clock, bookings, bookRes >>

\* server.js:106-111: the provider call throws; the loop goes on
ProviderFail(r) ==
    /\ req[r].pc = "await"
    /\ runLoop(r, [ req[r] EXCEPT !.lastErr = providerError(req[r].provider) ],
               req[r].attempt + 1)
    /\ UNCHANGED << providers, vectorStore, fs, indexRes, probe, clock, bookings, bookRes >>

Next ==
    \/ \E r \in Reqs : \E body \in Bodies : ChatStart(r, body)
    \/ \E r \in Reqs : ProviderOk(r)
    \/ \E r \in Reqs : ProviderFail(r)
    \/ Index

Spec == Init /\ [][Next]_vars

\* every provider call eventually returns or fails (the HTTP exchange ends)
FairSpec ==
    Spec /\ \A r \in Reqs : WF_vars(ProviderOk(r) \/ ProviderFail(r))

----------------------------------------------------------------------------
(* The index and the retriever on their own: files come and go between     *)
(* index requests, and retrieveTopK is called with any k.                  *)

FsAdd ==
    /\ \/ \E f \in KnowledgeNames \ fs.knowledge : fs' = [ fs EXCEPT !.knowledge = @ \cup {f} ]
       \/ \E f \in RootNames \ fs.root : fs' = [ fs EXCEPT !.root = @ \cup {f} ]
    /\ UNCHANGED << providers, providerIndex, vectorStore, indexRes, req, calls, lastSel, selLog, probe, clock, bookings, bookRes >>

FsRemove ==
    /\ \/ \E f \in fs.knowledge : fs' = [ fs EXCEPT !.knowledge = @ \ {f} ]
       \/ \E f \in fs.root : fs' = [ fs EXCEPT !.root = @ \ {f} ]
    /\ UNCHANGED << providers, providerIndex, vectorStore, indexRes, req, calls, lastSel, selLog, probe, clock, bookings, bookRes >>

Queries == { "sleep", "Walk and sleep", "stress" }

Retrieve(query, k) ==
    /\ probe' = [ called |-> TRUE, query |-> query, k |-> k, result |-> retrieveTopK(query, k) ]
    /\ UNCHANGED << providers, providerIndex, vectorStore, fs, indexRes, req, calls, lastSel, selLog, clock, bookings, bookRes >>

InitIndex ==
    /\ InitProcess
    /\ providers = << "google", "openai", "huggingface" >>
    /\ fs = [ knowledge |-> {}, root |-> {} ]

NextIndex ==
    \/ Index
    \/ FsAdd
    \/ FsRemove
    \/ \E query \in Queries : \E k \in (-MaxK)..MaxK : Retrieve(query, k)

SpecIndex == InitIndex /\ [][NextIndex]_vars

----------------------------------------------------------------------------
(* generateWithRotation on its own, with any maxTries from 0 to 3 *)

InitGen == Init

NextGen ==
    \/ \E r \in Reqs : \E maxTries \in 0..ChatMaxTries : Generate(r, maxTries)
    \/ \E r \in Reqs : ProviderOk(r)
    \/ \E r \in Reqs : ProviderFail(r)

SpecGen == InitGen /\ [][NextGen]_vars

----------------------------------------------------------------------------
(* POST /api/book, server.js:155-171.  The handler has no await.  elapsed  *)
(* is the time that passes between Date.now() and new Date().              *)

Book(name, phone, elapsed) ==
    /\ clock + elapsed <= ClockStart + MaxTicks
    /\ IF name = "" \/ phone = ""
       THEN /\ bookRes' = bookingRejected
            /\ UNCHANGED << bookings, clock >>
       ELSE /\ Len(readBookings) < MaxBookings
            /\ LET all == readBookings
                   entry == bookingEntry(name, phone, clock, clock + elapsed)
               IN /\ bookings' = [ exists |-> TRUE, all |-> Append(all, entry) ]
                  /\ bookRes' = bookingAccepted(entry.ref)
            /\ clock' = clock + elapsed
    /\ UNCHANGED << providers, providerIndex, vectorStore, fs, indexRes, req, calls, lastSel, selLog, probe >>

\* a millisecond passes
Tick ==
    /\ clock < ClockStart + MaxTicks
    /\ clock' = clock + 1
    /\ UNCHANGED << providers, providerIndex, vectorStore, fs, indexRes, req, calls, lastSel, selLog, probe, bookings, bookRes >>

InitBook ==
    /\ InitProcess
    /\ providers = << "google", "openai", "huggingface" >>
    /\ fs = [ knowledge |-> {}, root |-> {} ]

NextBook ==
    \/ \E name \in BookNames : \E phone \in BookPhones : \E elapsed \in 0..1 :
          Book(name, phone, elapsed)
    \/ Tick

SpecBook == InitBook /\ [][NextBook]_vars

----------------------------------------------------------------------------
(* The three handlers together.  The process has been up for a while: an   *)
(* index request built the store from a.txt when ./knowledge held it, and  *)
(* the files have since been replaced by those of Init.                    *)

PreviousStore == IndexedStores[<< "a.txt" >>]

InitAll ==
    /\ providers \in ProviderConfigs
    /\ providerIndex = 0
    /\ vectorStore = PreviousStore
    /\ indexRes = [ status |-> 200, ok |-> TRUE, indexed |-> 1 ]
    /\ fs = [ knowledge |-> {"c.js"}, root |-> {"my_data.txt"} ]
    /\ req = [ r \in Reqs |-> IdleReq ]
    /\ calls = [ r \in Reqs |-> <<>> ]
    /\ lastSel = 0
    /\ probe = NoProbe
    /\ selLog = <<>>
    /\ clock = ClockStart
    /\ bookings = [ exists |-> FALSE, all |-> <<>> ]
    /\ bookRes = NoBookRes

NextAll ==
    \/ \E r \in Reqs : \E body \in Bodies : ChatStart(r, body)
    \/ \E r \in Reqs : ProviderOk(r)
    \/ \E r \in Reqs : ProviderFail(r)
    \/ Index
    \/ \E name \in BookNames : Book(name, "9999999999", 0)

SpecAll == InitAll /\ [][NextAll]_vars

----------------------------------------------------------------------------
(* Properties of the chat handler and the rotation *)

ReplyPcs == { "retSafety", "retGenerated", "retDemo" }

\* the response of request r is one of the three replies, in its own shape
IsReply(r) ==
    /\ req[r].pc \in ReplyPcs
    /\ req[r].res.status = 200
    /\ req[r].res.error = ""
    /\ req[r].pc = "retSafety" =>
          req[r].res.emergency /\ req[r].res.reply = SafetyText
    /\ req[r].pc = "retGenerated" =>
          /\ ~req[r].res.emergency
          /\ Len(calls[r]) >= 1
          /\ req[r].res.reply = trim(providerText(calls[r][Len(calls[r])]))
    /\ req[r].pc = "retDemo" =>
          /\ ~req[r].res.emergency
          /\ SubSeq(req[r].res.reply, 1, 6) = "[DEMO]"

\* C1: every chat request with a non-empty message ends, when each of its
\* provider calls returns or fails, with the safety reply, a generated reply
\* or the demo reply, and never with a 400 or 500 response.
C1_AlwaysSomeReply ==
    \A r \in Reqs :
        /\ [](req[r].message # "" => req[r].pc \notin { "ret400", "ret500" })
        /\ [](req[r].pc \in ReplyPcs => IsReply(r))
        /\ (req[r].message # "") ~> (req[r].pc \in ReplyPcs)

\* a request got the demo reply after all the providers it called failed,
\* while another one was answered by a provider
C1_Witness ==
    \E r \in Reqs, q \in Reqs :
        /\ req[r].pc = "retDemo" /\ Len(calls[r]) >= 2 /\ IsReply(r)
        /\ req[q].pc = "retGenerated" /\ IsReply(q)
        /\ indexRes.status = 200

\* the message contains an emergency phrase, in any letter case
HasEmergencyPhrase(m) ==
    \E w \in { "suicide", "kill myself", "hurt myself", "overdose", "i want to die", "self harm" } :
        \E i \in 1..Len(m) : i + Len(w) - 1 <= Len(m) /\ toLowerCase(SubSeq(m, i, i + Len(w) - 1)) = w

\* C2: a request whose message contains an emergency phrase is answered with
\* the safety message and emergency = true; no provider is called and no
\* retrieval is done for it, and its step leaves the cursor unchanged.
C2_EmergencyBypass ==
    [][ \A r \in Reqs :
          (req'[r].pc # "idle" /\ HasEmergencyPhrase(req'[r].message)) =>
             /\ req'[r].pc = "retSafety"
             /\ req'[r].res = safetyResponse
             /\ req'[r].res.emergency
             /\ calls'[r] = <<>>
             /\ req'[r].tried = {}
             /\ ~req'[r].retrieved
             /\ (req[r].pc = "idle" => providerIndex' = providerIndex /\ lastSel' = lastSel) ]_vars

\* an emergency request was answered while providers are configured and
\* another request is suspended in a provider call
C2_Witness ==
    \E r \in Reqs, q \in Reqs :
        /\ req[r].pc = "retSafety" /\ req[r].message = "I WANT TO DIE, book a slot"
        /\ Len(providers) = 3
        /\ req[q].pc = "await" /\ providerIndex > 0

\* C3: an invocation in which every provider call fails has called exactly
\* min(maxAttempts, n) distinct providers when it fails.
C3_ExhaustsAllProviders ==
    \A r \in Reqs :
        (req[r].pc = "retDemo" /\ Len(providers) >= 1) =>
            /\ Len(calls[r]) = Min(ChatMaxTries, Len(providers))
            /\ Cardinality({ calls[r][i] : i \in 1..Len(calls[r]) })
                 = Min(ChatMaxTries, Len(providers))

\* C4: no invocation calls the same provider twice.
C4_NoProviderTwice ==
    \A r \in Reqs : \A i \in 1..Len(calls[r]) : \A j \in 1..Len(calls[r]) :
        i # j => calls[r][i] # calls[r][j]

\* an invocation went through the loop to its end, was handed a provider it
\* had tried already by the cursor, and skipped it
C4_Witness ==
    \E r \in Reqs :
        /\ req[r].pc = "retDemo" /\ Len(providers) >= 2
        /\ Len(calls[r]) >= 1
        /\ Len(calls[r]) < Len(providers)

\* position of provider p in the configured set, from 0
PositionOf(p) == (CHOOSE i \in 1..Len(providers) : providers[i] = p) - 1

\* C5: when the latest cursor selection was made by an invocation that then
\* returned successfully from the provider at position i, the next invocation
\* calls the provider at position (i+1) mod n first.
C5_RoundRobinPersistence ==
    [][ \A r2 \in Reqs : \A r1 \in Reqs :
          ( /\ req[r2].pc = "idle" /\ req'[r2].pc = "await"
            /\ req[r1].pc = "retGenerated" /\ lastSel = r1 ) =>
              /\ Len(calls'[r2]) = 1
              /\ calls'[r2][1] =
                   providers[((PositionOf(req[r1].provider) + 1) % Len(providers)) + 1] ]_vars

\* a request answered by the first of several providers is followed by a
\* request that is calling the second
C5_Witness ==
    \E r1 \in Reqs, r2 \in Reqs :
        /\ Len(providers) >= 2
        /\ req[r1].pc = "retGenerated" /\ calls[r1] = << providers[1] >>
        /\ req[r2].pc = "await" /\ calls[r2] = << providers[2] >>
        /\ lastSel = r2 /\ providerIndex = 2

\* C8: a non-emergency request whose message matches the booking pattern gets
\* booking.url in its response, with the generated reply and with the demo reply.
C8_BookingAlwaysOffered ==
    \A r \in Reqs :
        (req[r].pc \in { "retGenerated", "retDemo" } /\ bookingIntent(req[r].message)) =>
            req[r].res.booking = << BOOKING_LINK >>

----------------------------------------------------------------------------
(* Properties of /api/index and of retrieveTopK, under SpecIndex *)

\* a step of SpecIndex that is an index request: the files and the probe stay
IsIndexStep == fs' = fs /\ probe' = probe

\* C6: with at least one .txt/.md file in ./knowledge the request succeeds
\* with indexed = the number of those files, and the store holds one document
\* per file with the file's content in ./knowledge; my_data.txt is used only
\* when there is no such file, and 400 is returned only when neither exists.
C6_IndexesKnowledgeFolder ==
    [][ IsIndexStep =>
          /\ knowledgeFiles # {} =>
                /\ indexRes'.status = 200
                /\ indexRes'.indexed = Cardinality(knowledgeFiles)
                /\ Len(vectorStore'.docs) = Cardinality(knowledgeFiles)
                /\ \A f \in knowledgeFiles : \E i \in 1..Len(vectorStore'.docs) :
                      /\ vectorStore'.docs[i].id = f
                      /\ vectorStore'.docs[i].text = KnowledgeText(f)
          /\ (knowledgeFiles = {} /\ "my_data.txt" \in fs.root) =>
                /\ indexRes'.status = 200
                /\ Len(vectorStore'.docs) = 1
                /\ vectorStore'.docs[1].id = "my_data.txt"
          /\ indexRes'.status = 400 <=> (knowledgeFiles = {} /\ "my_data.txt" \notin fs.root) ]_vars

\* C7: an index request that finds no document answers 400 and leaves the
\* vocabulary and the documents of the store as they were.
C7_EmptySourceKeepsStore ==
    [][ (IsIndexStep /\ knowledgeFiles = {} /\ "my_data.txt" \notin fs.root) =>
          /\ indexRes'.status = 400
          /\ vectorStore' = vectorStore ]_vars

\* a store built earlier is still there after an index request answered 400
C7_Witness ==
    /\ indexRes.status = 400
    /\ Len(vectorStore.docs) >= 1
    /\ Len(vectorStore.vocab) >= 1
    /\ knowledgeFiles = {} /\ "my_data.txt" \notin fs.root

\* C9: retrieveTopK returns the empty sequence when the store is empty or k <= 0.
C9_EmptyForNonPositiveK ==
    [][ (probe' # probe /\ (Len(vectorStore.docs) = 0 \/ probe'.k <= 0)) =>
          probe'.result = <<>> ]_vars

\* score of stored document number i for the query
ScoreOf(query, i) ==
    cosine(tfvec(query, vectorStore.vocab), vectorStore.docs[i].embedding)

\* C10: for k >= 1 the result has at most k stored documents, none twice, in
\* order of non-increasing similarity, equal similarities in storage order,
\* and no document left out is more similar than one returned.
C10_TopKOrdered ==
    [][ (probe' # probe /\ probe'.k >= 1) =>
          LET res == probe'.result
              q == probe'.query
              n == Len(vectorStore.docs)
              Pos(d) == CHOOSE i \in 1..n : vectorStore.docs[i].id = d.id
              Idx == { Pos(res[i]) : i \in 1..Len(res) }
          IN /\ Len(res) <= probe'.k
             /\ Len(res) = Min(probe'.k, n)
             /\ \A i \in 1..Len(res) : \E j \in 1..n : vectorStore.docs[j] = res[i]
             /\ \A i \in 1..Len(res) : \A j \in 1..Len(res) : i # j => res[i].id # res[j].id
             /\ \A i \in 1..Len(res) : \A j \in 1..Len(res) :
                   i < j =>
                     /\ ~ScoreGreater(ScoreOf(q, Pos(res[j])), ScoreOf(q, Pos(res[i])))
                     /\ ~ScoreGreater(ScoreOf(q, Pos(res[i])), ScoreOf(q, Pos(res[j])))
                           => Pos(res[i]) < Pos(res[j])
             /\ \A m \in (1..n) \ Idx : \A i \in 1..Len(res) :
                   ~ScoreGreater(ScoreOf(q, m), ScoreOf(q, Pos(res[i]))) ]_vars

\* retrieveTopK left out the less similar of two stored documents, the first
\* in storage order
C10_Witness ==
    /\ probe.called /\ probe.k = 1 /\ Len(probe.result) = 1
    /\ Len(vectorStore.docs) = 2
    /\ probe.result[1] = vectorStore.docs[2]
    /\ ScoreGreater(ScoreOf(probe.query, 2), ScoreOf(probe.query, 1))

----------------------------------------------------------------------------
(* Further properties of the chat handler and the rotation *)

\* C11: a chat request without a message, or with an empty one, is answered
\* 400; nothing is retrieved, no provider is called, and the cursor and the
\* store stay as they were.
C11_RejectsEmptyMessage ==
    [][ \A r \in Reqs :
          (req[r].pc = "idle" /\ req'[r].pc # "idle" /\ req'[r].message = "") =>
             /\ req'[r].pc = "ret400"
             /\ req'[r].res = badRequest
             /\ req'[r].res.status = 400 /\ ~req'[r].res.emergency
             /\ ~req'[r].retrieved
             /\ req'[r].tried = {}
             /\ calls'[r] = <<>>
             /\ providerIndex' = providerIndex
             /\ lastSel' = lastSel
             /\ vectorStore' = vectorStore ]_vars

\* a request was rejected while providers are configured, the store is built
\* and another request is suspended in a provider call
C11_Witness ==
    \E r \in Reqs, q \in Reqs :
        /\ req[r].pc = "ret400"
        /\ req[q].pc = "await"
        /\ Len(providers) >= 1 /\ providerIndex >= 1
        /\ Len(vectorStore.docs) >= 1

----------------------------------------------------------------------------
(* Properties of the booking handler *)

\* C12: every accepted booking appends exactly one record to the file, the
\* record's ref is "BK" followed by the clock reading, the response carries
\* that ref, and no two records of the file have the same ref.
C12_DistinctRefs ==
    [][ bookings' # bookings =>
          LET before == readBookings
              after == bookings'.all
          IN /\ bookings'.exists
             /\ Len(after) = Len(before) + 1
             /\ SubSeq(after, 1, Len(before)) = before
             /\ after[Len(after)].ref = "BK" \o numberToString(clock)
             /\ bookRes' = [ status |-> 200, ok |-> TRUE, ref |-> after[Len(after)].ref,
                             error |-> "" ]
             /\ \A i \in 1..Len(after) : \A j \in 1..Len(after) :
                   i # j => after[i].ref # after[j].ref ]_vars

\* C13: a well-formed, non-emergency chat request gets the demo reply only
\* if no provider is configured or every configured provider was called
\* for it.
C13_DemoOnlyAfterAllFailed ==
    \A r \in Reqs :
        (req[r].pc = "retDemo" /\ req[r].message # "" /\ ~checkEmergency(req[r].message)) =>
            \/ Len(providers) = 0
            \/ { calls[r][i] : i \in 1..Len(calls[r]) } = { providers[i] : i \in 1..Len(providers) }

----------------------------------------------------------------------------
(* Properties of the cursor, the vocabulary and the store *)

\* C14: the cursor never decreases; the i-th call of getNextProvider reads
\* the cursor value i-1 (so no two calls read the same value and each call
\* adds exactly one), and returns providers[cursor mod n], whether the
\* provider is then called or skipped; the cursor moves by the number of
\* selections of the step, and steps of index, book, rejected and
\* emergency requests leave it alone.
C14_CursorCountsSelections ==
    [][ /\ providerIndex' >= providerIndex
        /\ Len(selLog') >= Len(selLog)
        /\ SubSeq(selLog', 1, Len(selLog)) = selLog
        /\ providerIndex' - providerIndex = Len(selLog') - Len(selLog)
        /\ \A i \in 1..Len(selLog') :
              /\ selLog'[i].cursor = i - 1
              /\ selLog'[i].provider = providers[((i - 1) % Len(providers)) + 1]
        /\ \A i \in 1..Len(selLog') : \A j \in 1..Len(selLog') :
              i # j => selLog'[i].cursor # selLog'[j].cursor
        /\ ( \/ indexRes' # indexRes
             \/ vectorStore' # vectorStore
             \/ bookRes' # bookRes
             \/ bookings' # bookings
             \/ \E r \in Reqs : req[r].pc = "idle" /\ req'[r].pc \in { "ret400", "retSafety" }
             \/ \E r \in Reqs : req'[r].pc = "retGenerated" /\ req[r].pc = "await" )
           => providerIndex' = providerIndex ]_vars

\* the cursor has gone round the providers, a request skipped a provider
\* that a concurrent request had moved the cursor onto, and an index, a
\* booking, a rejected and an emergency request were served on the way
C14_Witness ==
    /\ Len(providers) = 2
    /\ providerIndex >= 4
    /\ \E r \in Reqs : req[r].selections > Len(calls[r])
    /\ vectorStore # PreviousStore
    /\ Len(bookings.all) >= 1
    /\ bookRes.status = 400

\* position of the first occurrence of w in the token sequence ts
FirstAt(ts, w) == CHOOSE i \in 1..Len(ts) : ts[i] = w /\ \A j \in 1..(i - 1) : ts[j] # w

\* C15: the vocabulary of the store is made of the distinct tokens of its
\* documents, the 400 most frequent of them, in descending order of their
\* total count, tokens of equal count in the order of their first
\* occurrence; digit-only tokens included.
C15_VocabByCountThenFirstSeen ==
    LET ts == allTokens(vectorStore.docs)
        v == vectorStore.vocab
        distinct == { ts[i] : i \in 1..Len(ts) }
    IN /\ Len(v) = Min(MaxVocab, Cardinality(distinct))
       /\ \A i \in 1..Len(v) : v[i] \in distinct
       /\ \A i \in 1..Len(v) : \A j \in 1..Len(v) : i # j => v[i] # v[j]
       /\ \A i \in 1..Len(v) : \A j \in 1..Len(v) :
             i < j =>
                \/ count(ts, v[i]) > count(ts, v[j])
                \/ /\ count(ts, v[i]) = count(ts, v[j])
                   /\ FirstAt(ts, v[i]) < FirstAt(ts, v[j])

----------------------------------------------------------------------------
(* Properties of generateWithRotation called on its own *)

\* C17: when an invocation with at least one provider and maxTries >= 1
\* throws, it has called at least one provider and throws the error of the
\* last provider it called; it throws "All providers failed" only after no
\* provider call, which takes maxTries <= 0; it throws "No providers
\* configured" exactly when no provider is configured, and then without
\* any selection.
C17_ThrowsLastProviderError ==
    \A r \in Reqs :
        req[r].pc = "threw" =>
            /\ (req[r].err = NoProvidersError) <=> (Len(providers) = 0)
            /\ Len(providers) = 0 =>
                  /\ req[r].selections = 0 /\ calls[r] = <<>>
                  /\ providerIndex = 0 /\ selLog = <<>>
            /\ (Len(providers) >= 1 /\ req[r].maxTries >= 1) =>
                  /\ Len(calls[r]) >= 1
                  /\ req[r].err = providerError(calls[r][Len(calls[r])])
            /\ (req[r].err = "All providers failed") =>
                  /\ calls[r] = <<>>
                  /\ req[r].lastErr = Null
                  /\ req[r].maxTries <= 0

\* one invocation threw the error of the last of the several providers it
\* called, another, with maxTries 0, the generic error
C17_Witness ==
    \E r \in Reqs, q \in Reqs :
        /\ req[r].pc = "threw" /\ Len(calls[r]) >= 2
        /\ req[r].err = providerError(calls[r][Len(calls[r])])
        /\ req[q].pc = "threw" /\ req[q].maxTries = 0
        /\ req[q].err = "All providers failed"

\* C18: when a provider call succeeds the invocation returns that
\* provider's text and makes no further selection or call; an invocation
\* that has returned or thrown does nothing more; and an invocation makes
\* at most min(maxTries, n) selections and at most as many provider calls.
C18_StopsAtFirstSuccess ==
    [][ \A r \in Reqs :
          /\ (req[r].pc = "await" /\ req'[r].pc = "returned") =>
                /\ req'[r].text = providerText(calls[r][Len(calls[r])])
                /\ calls'[r] = calls[r]
                /\ req'[r].selections = req[r].selections
                /\ providerIndex' = providerIndex
                /\ selLog' = selLog
          /\ req[r].pc \in { "returned", "threw" } =>
                req'[r] = req[r] /\ calls'[r] = calls[r]
          /\ req'[r].pc # "idle" =>
                /\ req'[r].selections <= Min(req'[r].maxTries, Len(providers))
                /\ Len(calls'[r]) <= req'[r].selections ]_vars

\* an invocation returned the text of the second provider it called, with
\* attempts left, while another invocation is still in a provider call
C18_Witness ==
    \E r \in Reqs, q \in Reqs :
        /\ req[r].pc = "returned" /\ Len(calls[r]) = 2
        /\ req[r].maxTries = 3 /\ Len(providers) = 3
        /\ req[r].text = providerText(calls[r][2])
        /\ req[q].pc = "await"

----------------------------------------------------------------------------
(* Properties of the index request's effect on the store *)

\* the store is one whole generation: its vocabulary is the one built from
\* its own documents and every embedding is computed over it
WholeStore(store) ==
    /\ store.vocab = buildVocab(store.docs, MaxVocab)
    /\ \A d \in 1..Len(store.docs) :
          store.docs[d].embedding = tfvec(store.docs[d].text, store.vocab)

\* C19: an index request that is not answered 200, the 500 of a failed
\* read included, leaves the store as it was; the store changes only in a
\* request answered 200, all of whose files could be read, and then to
\* one whole generation, never to a half-replaced store.
C19_FailedIndexKeepsStore ==
    [][ /\ (fs' = fs /\ probe' = probe /\ indexRes'.status # 200) => vectorStore' = vectorStore
        /\ vectorStore' # vectorStore =>
              /\ indexRes'.status = 200
              /\ indexRes'.indexed = Len(vectorStore'.docs)
              /\ \A d \in 1..Len(vectorStore'.docs) : vectorStore'.docs[d].id \in fs.root
              /\ WholeStore(vectorStore') ]_vars

\* an index request failed on an unreadable file, one of two discovered,
\* while the store held the document of an earlier generation
C19_Witness ==
    /\ indexRes.status = 500
    /\ Len(vectorStore.docs) >= 1
    /\ Cardinality(knowledgeFiles) = 2
    /\ \E f \in knowledgeFiles : canRead(f)
    /\ \E f \in knowledgeFiles : ~canRead(f)

\* C20: no step of a chat request changes the store; no index or book
\* request changes the cursor; and when an index request changes the store,
\* the new store holds exactly the documents just discovered, each once,
\* with the text just read, and no document of the store it replaces.
C20_FramesAndWholesaleReplace ==
    [][ /\ req' # req => vectorStore' = vectorStore
        /\ ( \/ indexRes' # indexRes \/ vectorStore' # vectorStore
             \/ bookRes' # bookRes \/ bookings' # bookings )
           => /\ providerIndex' = providerIndex
              /\ selLog' = selLog
              /\ req' = req /\ calls' = calls
        /\ vectorStore' # vectorStore =>
              LET found == IF knowledgeFiles = {} THEN { "my_data.txt" } ELSE knowledgeFiles
                  new == vectorStore'.docs
              IN /\ indexRes'.status = 200
                 /\ Len(new) = Cardinality(found)
                 /\ { new[d].id : d \in 1..Len(new) } = found
                 /\ \A d \in 1..Len(new) : new[d].text = readFileSync(new[d].id)
                 /\ \A d \in 1..Len(new) : \A e \in 1..Len(vectorStore.docs) :
                       new[d] # vectorStore.docs[e]
                 /\ WholeStore(vectorStore') ]_vars

\* the store was replaced by the one built from my_data.txt while a chat
\* request that retrieved from the previous store and moved the cursor has
\* been answered, and a booking was recorded
C20_Witness ==
    /\ Len(vectorStore.docs) = 1 /\ vectorStore.docs[1].id = "my_data.txt"
    /\ providerIndex >= 2
    /\ Len(bookings.all) >= 1
    /\ \E r \in Reqs :
          /\ req[r].pc \in { "retGenerated", "retDemo" }
          /\ Len(req[r].top) = 1 /\ req[r].top[1].id = "a.txt"

====
